---- MODULE Spec2Model ----
(***************************************************************************)
(* State-machine model of gold_loan_llm_app3.py: a Streamlit script that   *)
(* loads a spreadsheet, asks an LLM oracle for a pandas expression, and    *)
(* evaluates that expression with eval() against the session DataFrame.    *)
(*                                                                         *)
(* Streamlit re-executes the whole script on every browser event.  One     *)
(* script run is modelled by ScriptRun (lines 133-204, up to the blocking  *)
(* oracle call) followed, when a question was submitted, by OracleRespond  *)
(* (lines 44-72 and 206-231).                                              *)
(***************************************************************************)
EXTENDS Integers, Sequences, FiniteSets, TLC

VARIABLES
    pc,              \* "idle" (script finished, waiting for a browser event),
                     \* "awaiting" (inside asyncio.run(call_gemini_api(...))),
                     \* "terminated" (the server process has exited)
    df,              \* st.session_state.df: None or a DataFrame
    queryShown,      \* the text input and the button are on the page
    button,          \* value returned by st.button("Get Answer") in this run
    user_query,      \* value returned by st.text_input in this run
    df_columns_info, \* schema text built at lines 166-167
    response,        \* what the HTTP exchange of this run produced
    python_code,     \* value returned by call_gemini_api
    exec_result,     \* outcome of eval(python_code, ...)
    notices,         \* page elements emitted by this script run, in order
    stages           \* pipeline stages executed by this script run, in order

vars == <<pc, df, queryShown, button, user_query, df_columns_info, response,
          python_code, exec_result, notices, stages>>

----------------------------------------------------------------------------
(* Bounds of the model. *)

\* Largest number of rows of the spreadsheet.
MaxRows == 1

\* Largest number of attribute/subscript/call steps chained after the head
\* of an oracle expression.
MaxOps == 2

----------------------------------------------------------------------------
(* Python values.  Every value is a record of the same shape so that any   *)
(* two of them can be compared.                                            *)

PyValue(k, rows, session, n, m) ==
    [k |-> k, rows |-> rows, session |-> session, n |-> n, m |-> m]

\* Python's None.
None == PyValue("None", <<>>, FALSE, 0, "")

\* A pandas DataFrame with one integer column; session = TRUE for the object
\* held in st.session_state.df, FALSE for a derived copy.
DataFrame(rows, session) == PyValue("DataFrame", rows, session, 0, "")

\* A non-tabular, non-None value (number or text).
Scalar(n) == PyValue("scalar", <<>>, FALSE, n, "")

\* A module object.
Module(m) == PyValue("module", <<>>, FALSE, 0, m)

Values == {1, 2}

RECURSIVE SeqsUpTo(_, _)
SeqsUpTo(S, n) ==
    IF n = 0 THEN {<<>>}
    ELSE LET shorter == SeqsUpTo(S, n - 1)
         IN  shorter \cup {Append(s, x) : s \in {t \in shorter : Len(t) = n - 1}, x \in S}

\* The spreadsheets pd.read_excel can return.
Datasets == {DataFrame(rows, TRUE) : rows \in SeqsUpTo(Values, MaxRows)}

----------------------------------------------------------------------------
(* Page elements. *)

Notice(fn, msg, n) == [fn |-> fn, msg |-> msg, n |-> n]

Shown(msg) == \E i \in 1..Len(notices) : notices[i].msg = msg

ShownAs(fn, msg) ==
    \E i \in 1..Len(notices) : notices[i].msg = msg /\ notices[i].fn = fn

MsgSet == {notices[i].msg : i \in 1..Len(notices)}

Count(seq, x) == Cardinality({i \in 1..Len(seq) : seq[i] = x})

----------------------------------------------------------------------------
(* The text returned by the oracle.  A string is kept in parsed form: a    *)
(* head token followed by a chain of attribute/subscript/call steps.       *)

Code(k, head, ops) == [k |-> k, head |-> head, ops |-> ops]

\* Python None as the return value of call_gemini_api.
NoCode == Code("None", "", <<>>)

\* The string "".
EmptyString == Code("str", "", <<>>)

\* A JSON number in the python_code field.
IntCode(digits) == Code("int", digits, <<>>)

\* Text that is not a Python expression, e.g. "df[".
SyntaxErrorHead == "df["

\* Constant literals, which need no name lookup.
Literals == {"None", "42"}

\* Bare names an expression may mention.
Names == {"df", "pd", "len", "os", "__import__"}

Heads == Names \cup Literals \cup {SyntaxErrorHead}

\* Steps chained after the head:
\*   filter        [df['Loan Amount (INR)'] == FilterValue]   (new DataFrame)
\*   col_sum       ['Loan Amount (INR)'].sum()
\*   missing_col   ['No Such Column']
\*   drop_inplace  .drop(<receiver>.index, inplace=True)
\*   io_common_os  .io.common.os
\*   getcwd        .getcwd()
\*   _exit         ._exit(0)
Ops == {"filter", "col_sum", "missing_col", "drop_inplace",
        "io_common_os", "getcwd", "_exit"}

FilterValue == CHOOSE v \in Values : \A w \in Values : v <= w

Expressions == {Code("str", h, ops) : h \in Heads, ops \in SeqsUpTo(Ops, MaxOps)}

\* What the python_code field of the inner JSON object can hold.
CodeVals == Expressions \cup {EmptyString, NoCode, IntCode("5"), IntCode("0")}

\* Python truthiness of the value returned by call_gemini_api (line 206).
CodeTruthy(c) ==
    CASE c.k = "None" -> FALSE
      [] c.k = "str"  -> c.head # ""
      [] c.k = "int"  -> c.head # "0"

\* Names the expression refers to that are looked up in the scopes given to
\* eval (the head, unless it is a literal or unparseable text).
FreeNames(c) ==
    IF c.k = "str" /\ c.head \in Names THEN {c.head} ELSE {}

----------------------------------------------------------------------------
(* The HTTP exchange with the oracle. *)

HttpResponse(net, status, body, candidates, content, parts, text, inner, has_code, code) ==
    [net |-> net, status |-> status, body |-> body, candidates |-> candidates,
     content |-> content, parts |-> parts, text |-> text, inner |-> inner,
     has_code |-> has_code, code |-> code]

\* No exchange took place in this script run.
NoResponse == HttpResponse("none", 0, "none", FALSE, FALSE, FALSE, FALSE, "none", FALSE, NoCode)

\* net:        "fail" when client.post raises httpx.RequestError, else "ok"
\* status:     HTTP status code
\* body:       "invalid" (not JSON), "list" (JSON, not an object), "dict"
\* candidates, content, parts: the nested keys are present and non-empty
\* text:       parts[0] has a 'text' key
\* inner:      the text is "invalid" JSON, a JSON "list", or a JSON "dict"
\* has_code:   the inner object has the key python_code
\* code:       the value of that key
Responses ==
    {HttpResponse("fail", 0, "none", FALSE, FALSE, FALSE, FALSE, "none", FALSE, NoCode)}
    \cup {HttpResponse("ok", s, "none", FALSE, FALSE, FALSE, FALSE, "none", FALSE, NoCode) :
            s \in {401, 500}}
    \cup {HttpResponse("ok", 200, b, FALSE, FALSE, FALSE, FALSE, "none", FALSE, NoCode) :
            b \in {"invalid", "list", "dict"}}
    \cup {HttpResponse("ok", 200, "dict", TRUE, c, FALSE, FALSE, "none", FALSE, NoCode) :
            c \in BOOLEAN}
    \cup {HttpResponse("ok", 200, "dict", TRUE, TRUE, TRUE, FALSE, "none", FALSE, NoCode)}
    \cup {HttpResponse("ok", 200, "dict", TRUE, TRUE, TRUE, TRUE, i, FALSE, NoCode) :
            i \in {"invalid", "list", "dict"}}
    \cup {HttpResponse("ok", 200, "dict", TRUE, TRUE, TRUE, TRUE, "dict", TRUE, c) :
            c \in CodeVals}

\* response.raise_for_status() raises for 4xx and 5xx.
IsErrorStatus(status) == status >= 400 /\ status <= 599

\* The envelope test of lines 55-56.
EnvelopeOk(r) == r.candidates /\ r.content /\ r.parts

ApiResult(ret, msgs) == [ret |-> ret, notices |-> msgs]

\* call_gemini_api: the value returned and the notices emitted.
call_gemini_api(r) ==
    CASE r.net = "fail" ->
            \* except httpx.RequestError
            ApiResult(NoCode, <<Notice("error", "transport", 0)>>)
      [] r.net = "ok" /\ IsErrorStatus(r.status) ->
            \* httpx.HTTPStatusError is not a RequestError: except Exception
            ApiResult(NoCode, <<Notice("error", "unexpected", 0)>>)
      [] r.net = "ok" /\ ~IsErrorStatus(r.status) /\ r.body = "invalid" ->
            \* response.json() raises json.JSONDecodeError
            ApiResult(NoCode, <<Notice("error", "malformed_json", 0)>>)
      [] r.net = "ok" /\ ~IsErrorStatus(r.status) /\ r.body = "list" ->
            \* result.get raises AttributeError: except Exception
            ApiResult(NoCode, <<Notice("error", "unexpected", 0)>>)
      [] r.net = "ok" /\ ~IsErrorStatus(r.status) /\ r.body = "dict" /\ ~EnvelopeOk(r) ->
            ApiResult(NoCode, <<Notice("error", "envelope", 0)>>)
      [] r.net = "ok" /\ ~IsErrorStatus(r.status) /\ r.body = "dict" /\ EnvelopeOk(r) ->
            IF ~r.text
            THEN \* parts[0]['text'] raises KeyError: except Exception
                 ApiResult(NoCode, <<Notice("error", "unexpected", 0)>>)
            ELSE CASE r.inner = "invalid" ->
                        \* json.loads raises json.JSONDecodeError
                        ApiResult(NoCode, <<Notice("error", "malformed_json", 0)>>)
                   [] r.inner = "list" ->
                        \* parsed_json.get raises AttributeError: except Exception
                        ApiResult(NoCode, <<Notice("error", "unexpected", 0)>>)
                   [] r.inner = "dict" ->
                        \* parsed_json.get('python_code')
                        ApiResult(IF r.has_code THEN r.code ELSE NoCode, <<>>)

----------------------------------------------------------------------------
(* eval(python_code, {'__builtins__': None}, local_vars), line 210. *)

\* local_vars of line 209: the session DataFrame itself and the pandas module.
local_vars(d) == [n \in {"df", "pd"} |-> IF n = "df" THEN d ELSE Module("pd")]

\* outcome: "return" (a value), "raise" (an Exception), "exit" (the process
\*          has ended)
\* value:   the value computed so far
\* df:      the session DataFrame as the evaluation leaves it
\* ambient: the evaluation reached an object outside local_vars' own
\*          table operations (the os module)
EvalResult(outcome, value, d, ambient) ==
    [outcome |-> outcome, value |-> value, df |-> d, ambient |-> ambient]

\* eval was not called in this script run.
NoEval == EvalResult("none", None, None, FALSE)

RECURSIVE SumSeq(_)
SumSeq(s) == IF s = <<>> THEN 0 ELSE Head(s) + SumSeq(Tail(s))

Matching(rows) == SelectSeq(rows, LAMBDA v : v = FilterValue)

\* One attribute/subscript/call step applied to the value computed so far.
ApplyOp(st, op) ==
    LET v == st.value
        raise == EvalResult("raise", None, st.df, st.ambient)
    IN  CASE op = "filter" ->
                IF v.k = "DataFrame"
                THEN EvalResult("return", DataFrame(Matching(v.rows), FALSE), st.df, st.ambient)
                ELSE raise
          [] op = "col_sum" ->
                IF v.k = "DataFrame"
                THEN EvalResult("return", Scalar(SumSeq(v.rows)), st.df, st.ambient)
                ELSE raise
          [] op = "missing_col" ->
                \* KeyError on a DataFrame, TypeError/AttributeError otherwise
                raise
          [] op = "drop_inplace" ->
                \* DataFrame.drop(..., inplace=True) empties the receiver and
                \* returns None; the receiver is the session object when the
                \* chain started at df and made no copy
                IF v.k = "DataFrame"
                THEN EvalResult("return", None,
                                IF v.session THEN DataFrame(<<>>, TRUE) ELSE st.df,
                                st.ambient)
                ELSE raise
          [] op = "io_common_os" ->
                \* pandas.io.common imports os: attribute access needs no builtins
                IF v.k = "module" /\ v.m = "pd"
                THEN EvalResult("return", Module("os"), st.df, TRUE)
                ELSE raise
          [] op = "getcwd" ->
                IF v.k = "module" /\ v.m = "os"
                THEN EvalResult("return", Scalar(0), st.df, st.ambient)
                ELSE raise
          [] op = "_exit" ->
                \* os._exit ends the process without raising
                IF v.k = "module" /\ v.m = "os"
                THEN EvalResult("exit", None, st.df, st.ambient)
                ELSE raise

RECURSIVE ApplyOps(_, _)
ApplyOps(st, ops) ==
    IF ops = <<>> \/ st.outcome # "return" THEN st
    ELSE ApplyOps(ApplyOp(st, Head(ops)), Tail(ops))

\* Resolution of the head of the expression: literals are constants, names
\* are looked up in local_vars, then in the globals {'__builtins__': None},
\* then in the builtins, which are None.
EvalHead(c, d) ==
    CASE c.k # "str" ->
            \* TypeError: eval() arg 1 must be a string, bytes or code object
            EvalResult("raise", None, d, FALSE)
      [] c.k = "str" /\ c.head \in {"", SyntaxErrorHead} ->
            EvalResult("raise", None, d, FALSE)
      [] c.k = "str" /\ c.head = "None" ->
            EvalResult("return", None, d, FALSE)
      [] c.k = "str" /\ c.head = "42" ->
            EvalResult("return", Scalar(42), d, FALSE)
      [] c.k = "str" /\ c.head \in DOMAIN local_vars(d) ->
            EvalResult("return", local_vars(d)[c.head], d, FALSE)
      [] OTHER ->
            EvalResult("raise", None, d, FALSE)

PyEval(c, d) ==
    LET h == EvalHead(c, d)
    IN  IF c.k = "str" THEN ApplyOps(h, c.ops) ELSE h

----------------------------------------------------------------------------
(* The "Get Answer" handler after the oracle call, lines 206-231. *)

\* Variant of RenderResult without the .empty test of line 213.
RenderResult_NoEmptyTest(v) ==
    IF v.k = "DataFrame"
    THEN <<Notice("subheader", "table_header", 0),
           Notice("dataframe", "table", Len(v.rows)),
           Notice("success", "rows_matched", Len(v.rows))>>
    ELSE IF v # None
         THEN <<Notice("subheader", "answer_header", 0),
                Notice("success", "answer", v.n)>>
         ELSE <<Notice("info", "no_result", 0)>>

\* Lines 212-224: the page elements chosen for an evaluated value.
RenderResult(v) ==
    IF v.k = "DataFrame"
    THEN IF v.rows # <<>>
         THEN <<Notice("subheader", "table_header", 0),
                Notice("dataframe", "table", Len(v.rows)),
                Notice("success", "rows_matched", Len(v.rows))>>
         ELSE <<Notice("info", "no_match", 0)>>
    ELSE IF v # None
         THEN <<Notice("subheader", "answer_header", 0),
                Notice("success", "answer", v.n)>>
         ELSE <<Notice("info", "no_result", 0)>>

\* Variant of ExecutionError without the st.code echo of line 229.
ExecutionError_NoEcho == <<Notice("error", "exec_error", 0)>>

\* Lines 226-229: the except clause around eval and the rendering.
ExecutionError == <<Notice("error", "exec_error", 0), Notice("code", "code_echo", 0)>>

\* Line 231.
NoQueryWarning == <<Notice("warning", "no_query", 0)>>

\* Line 233.
EnterQuestionWarning == <<Notice("warning", "enter_question", 0)>>

HandlerResult(p, d, e, msgs, st) ==
    [pc |-> p, df |-> d, exec_result |-> e, notices |-> msgs, stages |-> st]

\* Lines 206-231 for the value c returned by the oracle call.
HandleCode(c, d) ==
    IF CodeTruthy(c)
    THEN LET e == PyEval(c, d)
         IN  CASE e.outcome = "return" ->
                    HandlerResult("idle", e.df, e, RenderResult(e.value),
                                  <<"evaluator", "renderer">>)
               [] e.outcome = "raise" ->
                    HandlerResult("idle", e.df, e, ExecutionError, <<"evaluator">>)
               [] e.outcome = "exit" ->
                    HandlerResult("terminated", e.df, e, <<>>, <<"evaluator">>)
    ELSE HandlerResult("idle", d, NoEval, NoQueryWarning, <<>>)

\* Variant of AsyncioRun that calls again when the first call returned None.
AsyncioRun_Retry(r) ==
    [ret |-> call_gemini_api(r).ret,
     notices |-> call_gemini_api(r).notices,
     stages |-> IF call_gemini_api(r).ret = NoCode
                THEN <<"oracle", "oracle">> ELSE <<"oracle">>]

\* Line 204: one blocking call of call_gemini_api.
AsyncioRun(r) ==
    [ret |-> call_gemini_api(r).ret,
     notices |-> call_gemini_api(r).notices,
     stages |-> <<"oracle">>]

----------------------------------------------------------------------------
(* The top of the script: the load block and the query interface,          *)
(* lines 133-204.                                                          *)

LoadOutcome(err, frame) == [err |-> err, frame |-> frame]

\* What pd.read_excel(EXCEL_FILE_PATH) can do: return a DataFrame, raise
\* FileNotFoundError, or raise another Exception.
LoadOutcomes ==
    {LoadOutcome("none", f) : f \in Datasets}
    \cup {LoadOutcome(e, None) : e \in {"FileNotFoundError", "Exception"}}

LoadResult(d, msgs) == [df |-> d, notices |-> msgs]

\* Lines 138-149.
LoadBlock(load) ==
    CASE load.err = "none" ->
            LoadResult(load.frame, <<Notice("success", "load_ok", 0),
                                     Notice("dataframe", "preview", 0)>>)
      [] load.err = "FileNotFoundError" ->
            LoadResult(None, <<Notice("error", "load_not_found", 0)>>)
      [] OTHER ->
            LoadResult(None, <<Notice("error", "load_error", 0)>>)

\* Variant of InterfaceExposed without the test of line 154.
InterfaceExposed_Unguarded(d) == TRUE

\* Line 154: the query interface is built only when a DataFrame is held.
InterfaceExposed(d) == d # None

\* Variant of QuestionGiven without the test of line 162.
QuestionGiven_Unchecked(q) == TRUE

\* Line 162: truthiness of the text typed by the user.
QuestionGiven(q) == q # ""

\* Texts the user can type: nothing, white space only, a question.
Questions == {"", " ", "What is the average loan amount?"}

\* Lines 166-167: one entry per column, with its dtype.
SchemaSummary(d) ==
    <<[col |-> "Loan Amount (INR)",
       dtype |-> IF d.rows = <<>> THEN "object" ELSE "int64"]>>

Init ==
    /\ pc = "idle"
    /\ df = None
    /\ queryShown = FALSE
    /\ button = FALSE
    /\ user_query = ""
    /\ df_columns_info = <<>>
    /\ response = NoResponse
    /\ python_code = NoCode
    /\ exec_result = NoEval
    /\ notices = <<>>
    /\ stages = <<>>

\* One execution of the script from the top, triggered by a browser event:
\* click says whether the event is a press of "Get Answer", query is the
\* content of the text input.  Both need the widgets of the previous run.
ScriptRun(load, click, query) ==
    LET loaded == LoadBlock(load)
        exposed == InterfaceExposed(loaded.df)
        submitted == exposed /\ click /\ QuestionGiven(query)
    IN  /\ pc = "idle"
        /\ (click \/ query # "") => queryShown
        /\ df' = loaded.df
        /\ queryShown' = exposed
        /\ button' = (exposed /\ click)
        /\ user_query' = IF exposed THEN query ELSE ""
        /\ df_columns_info' = IF submitted THEN SchemaSummary(loaded.df) ELSE <<>>
        /\ stages' = IF submitted THEN <<"summarizer">> ELSE <<>>
        /\ notices' = IF exposed /\ click /\ ~QuestionGiven(query)
                      THEN loaded.notices \o EnterQuestionWarning
                      ELSE loaded.notices
        /\ pc' = IF submitted THEN "awaiting" ELSE "idle"
        /\ response' = NoResponse
        /\ python_code' = NoCode
        /\ exec_result' = NoEval

\* The oracle exchange completes with r and the handler runs to its end.
OracleRespond(r) ==
    LET api == AsyncioRun(r)
        h == HandleCode(api.ret, df)
    IN  /\ pc = "awaiting"
        /\ response' = r
        /\ python_code' = api.ret
        /\ exec_result' = h.exec_result
        /\ notices' = notices \o api.notices \o h.notices
        /\ stages' = stages \o api.stages \o h.stages
        /\ df' = h.df
        /\ pc' = h.pc
        /\ queryShown' = (h.pc = "idle")
        /\ UNCHANGED <<button, user_query, df_columns_info>>

Next ==
    \/ \E load \in LoadOutcomes, click \in BOOLEAN, query \in Questions :
            ScriptRun(load, click, query)
    \/ \E r \in Responses : OracleRespond(r)

Spec == Init /\ [][Next]_vars

----------------------------------------------------------------------------
(* States of the Session Controller and classes of notices. *)

NoDatasetLoaded == df = None
DatasetReady == pc = "idle" /\ df # None /\ queryShown
AwaitingQuery == pc = "awaiting"

LoadErrorMsgs == {"load_not_found", "load_error"}
OracleErrorMsgs == {"transport", "envelope", "malformed_json", "unexpected"}
ErrorMsgs == LoadErrorMsgs \cup OracleErrorMsgs \cup {"exec_error"}
ResultMsgs == {"table_header", "table", "rows_matched", "no_match",
               "answer_header", "answer", "no_result"}

Submitted == button /\ QuestionGiven(user_query)
Evaluated == exec_result # NoEval

\* The oracle answered with a non-2xx status.
ErrorStatusResponse == response.net = "ok" /\ IsErrorStatus(response.status)

\* The envelope is well formed and its inner text is not a JSON object with
\* a string field python_code.
MalformedInnerPayload ==
    /\ response.net = "ok" /\ ~IsErrorStatus(response.status)
    /\ response.body = "dict" /\ EnvelopeOk(response) /\ response.text
    /\ \/ response.inner \in {"invalid", "list"}
       \/ response.inner = "dict" /\ (~response.has_code \/ response.code.k # "str")

----------------------------------------------------------------------------
(* Claims. *)

\* C1: once a non-empty question has been submitted (AwaitingQuery), every
\* way the pipeline can end leaves the session in DatasetReady with the query
\* interface usable.
C1_AlwaysBackToDatasetReady ==
    [][AwaitingQuery => (pc' = "idle" /\ df' # None /\ queryShown')]_vars

\* C2: whenever the session DataFrame is absent the query interface is not on
\* the page, no question has been taken, no pipeline stage has run and no
\* oracle call is in flight; and unless the session has only just started, a
\* load-error notice is on the page.
C2_NoQueryWithoutDataset ==
    NoDatasetLoaded =>
        /\ ~queryShown /\ ~button /\ pc = "idle"
        /\ stages = <<>> /\ response = NoResponse /\ ~Evaluated
        /\ \/ notices = <<>>
           \/ \E m \in LoadErrorMsgs : ShownAs("error", m)

C2_Witness ==
    NoDatasetLoaded /\ ShownAs("error", "load_not_found")

\* C3: a press of the button with an empty question is answered with the
\* prompt to enter a question and never enters AwaitingQuery: no schema is
\* summarized, no oracle call, no evaluation and no rendering take place.
C3_EmptyQuestionRejected ==
    (button /\ user_query = "") =>
        /\ pc = "idle"
        /\ ShownAs("warning", "enter_question")
        /\ stages = <<>> /\ df_columns_info = <<>>
        /\ response = NoResponse /\ python_code = NoCode /\ ~Evaluated

C3_Witness ==
    button /\ user_query = "" /\ DatasetReady /\ Shown("enter_question")

\* C4: after a non-2xx HTTP status the transport notice is shown, not the
\* generic unexpected-failure notice, nothing is evaluated and the session is
\* back in DatasetReady.
C4_ErrorStatusIsTransportError ==
    ErrorStatusResponse =>
        /\ ShownAs("error", "transport") /\ ~Shown("unexpected")
        /\ ~Evaluated /\ DatasetReady

\* C5: after a well-formed envelope whose inner text is not valid JSON or
\* does not match the schema, an artifact notice is shown, neither the
\* transport notice nor the generic notice is, and nothing is evaluated.
C5_MalformedInnerIsArtifactError ==
    MalformedInnerPayload =>
        /\ ShownAs("error", "malformed_json") \/ ShownAs("error", "envelope")
        /\ ~Shown("transport") /\ ~Shown("unexpected")
        /\ ~Evaluated

\* C6: an evaluated expression that refers to a name other than df and pd
\* raises and returns no value, and no evaluation reaches a capability outside
\* the two bindings.
C6_OnlyBoundNamesReachable ==
    Evaluated =>
        /\ ~(FreeNames(python_code) \subseteq {"df", "pd"}) => exec_result.outcome = "raise"
        /\ ~exec_result.ambient

\* C7: the handler that evaluates the oracle's expression leaves the session
\* DataFrame equal to what it was before.
C7_DatasetUnchangedByEvaluation ==
    [][AwaitingQuery => df' = df]_vars

\* C8: every evaluated value is rendered by exactly one of four paths, chosen
\* in order: table with row count, "no match" notice, labeled answer, "no
\* specific result" notice; none of the four uses an error notice.
C8_ResultClassifierTotal ==
    exec_result.outcome = "return" =>
        LET v == exec_result.value
            shownResult == MsgSet \cap ResultMsgs
        IN  /\ MsgSet \cap ErrorMsgs = {}
            /\ \A i \in 1..Len(notices) :
                    notices[i].msg \in ResultMsgs => notices[i].fn \notin {"error", "warning"}
            /\ CASE v.k = "DataFrame" /\ v.rows # <<>> ->
                        /\ shownResult = {"table_header", "table", "rows_matched"}
                        /\ \E i \in 1..Len(notices) :
                                /\ notices[i].msg = "rows_matched"
                                /\ notices[i].n = Len(v.rows)
                 [] v.k = "DataFrame" /\ v.rows = <<>> ->
                        shownResult = {"no_match"} /\ ShownAs("info", "no_match")
                 [] v.k # "DataFrame" /\ v # None ->
                        shownResult = {"answer_header", "answer"}
                 [] v = None ->
                        shownResult = {"no_result"} /\ ShownAs("info", "no_result")

C8_Witness ==
    /\ exec_result.outcome = "return"
    /\ exec_result.value.k = "DataFrame" /\ exec_result.value.rows = <<>>
    /\ python_code.ops = <<"filter">>
    /\ Shown("no_match")

\* C9: a submission of a non-empty question makes exactly one oracle call,
\* whatever the call produced, and evaluates the returned expression at most
\* once; nothing else makes an oracle call.
C9_OneOracleCallPerSubmission ==
    /\ Count(stages, "oracle") <= 1
    /\ Count(stages, "evaluator") <= 1
    /\ (Submitted /\ ~AwaitingQuery) => Count(stages, "oracle") = 1
    /\ (~Submitted \/ AwaitingQuery) => Count(stages, "oracle") = 0
    /\ Count(stages, "evaluator") = 1 => (Count(stages, "oracle") = 1 /\ CodeTruthy(python_code))

C9_Witness ==
    /\ pc = "idle" /\ Submitted
    /\ response.net = "fail"
    /\ Count(stages, "oracle") = 1 /\ Count(stages, "evaluator") = 0

\* C10: when the evaluation raises, the execution-error notice and the echo
\* of the expression are shown, no result is rendered, and the session is
\* back in DatasetReady.
C10_EvaluationErrorCaught ==
    exec_result.outcome = "raise" =>
        /\ ShownAs("error", "exec_error") /\ ShownAs("code", "code_echo")
        /\ MsgSet \cap ResultMsgs = {}
        /\ Count(stages, "renderer") = 0
        /\ DatasetReady

C10_Witness ==
    /\ exec_result.outcome = "raise"
    /\ python_code.head = "df" /\ python_code.ops = <<"missing_col">>
    /\ Shown("exec_error") /\ DatasetReady

====
